---- MODULE Spec2Model ----
(***************************************************************************)
(* Model of crates/sui-rest-api/src/system.rs: the GET /system handler,    *)
(* the REST types SystemStateSummary / ValidatorSummary with their serde   *)
(* encodings, and the two From conversions out of the internal             *)
(* SuiSystemStateSummary / SuiValidatorSummary.                            *)
(***************************************************************************)
EXTENDS Integers, Sequences, FiniteSets, TLC

\* ------------------------------------------------------------------ bounds

\* number of distinct value families the sampled records are filled from
MaxSeed == 2
\* longest active_validators list of a sampled internal state
MaxValidators == 2
\* longest pending_removals / at_risk_validators / validator_report_records
MaxAux == 2
\* concurrent requests of the handler specification
NumRequests == 2
\* commits of the consensus layer in the handler specification
MaxCommits == 2

\* --------------------------------------------------------------- Option<T>

None == <<>>

Some(x) == <<x>>

IsSome(o) == o # <<>>

\* ------------------------------------------------------------------- u64
\* A u64 is kept at its full width as four 16-bit limbs, most significant
\* first, so that 2^64 - 1 and values above 2^53 are represented exactly.

LimbBase == 2 ^ 16

U64(a, b, c, d) == <<a, b, c, d>>

U64Zero == U64(0, 0, 0, 0)

U64Max == U64(LimbBase - 1, LimbBase - 1, LimbBase - 1, LimbBase - 1)

\* x <= y on u64
U64Le(x, y) ==
    \/ x = y
    \/ \E i \in 1..4 : x[i] < y[i] /\ \A j \in 1..(i - 1) : x[j] = y[j]

\* x / 10 and x % 10 by long division over the limbs
U64DivMod10(x) ==
    LET c1 == x[1]
        c2 == (c1 % 10) * LimbBase + x[2]
        c3 == (c2 % 10) * LimbBase + x[3]
        c4 == (c3 % 10) * LimbBase + x[4]
    IN  [q |-> U64(c1 \div 10, c2 \div 10, c3 \div 10, c4 \div 10), r |-> c4 % 10]

\* x * 10 + d with the carry out of the top limb (checked_mul / checked_add)
U64MulAdd10(x, d) ==
    LET t4 == x[4] * 10 + d
        t3 == x[3] * 10 + (t4 \div LimbBase)
        t2 == x[2] * 10 + (t3 \div LimbBase)
        t1 == x[1] * 10 + (t2 \div LimbBase)
    IN  [v |-> U64(t1 % LimbBase, t2 % LimbBase, t3 % LimbBase, t4 % LimbBase),
         overflow |-> (t1 \div LimbBase) # 0]

DigitChars == <<"0", "1", "2", "3", "4", "5", "6", "7", "8", "9">>

IsDigit(c) == \E d \in 0..9 : DigitChars[d + 1] = c

DigitValue(c) == CHOOSE d \in 0..9 : DigitChars[d + 1] = c

RECURSIVE U64Digits(_)
U64Digits(x) ==
    IF x = U64Zero THEN <<>>
    ELSE LET qr == U64DivMod10(x) IN Append(U64Digits(qr.q), DigitChars[qr.r + 1])

\* <u64 as Display>::to_string: decimal, no sign, no leading zero
u64_to_string(x) == IF x = U64Zero THEN <<"0">> ELSE U64Digits(x)

RECURSIVE U64ParseDigits(_, _)
U64ParseDigits(acc, s) ==
    IF s = <<>> THEN Some(acc)
    ELSE IF ~IsDigit(Head(s)) THEN None
    ELSE LET m == U64MulAdd10(acc, DigitValue(Head(s)))
         IN  IF m.overflow THEN None ELSE U64ParseDigits(m.v, Tail(s))

\* <u64 as FromStr>::from_str: an optional '+', then one or more digits;
\* None stands for the ParseIntError (empty, invalid digit, overflow)
u64_from_str(s) ==
    LET digits == IF s # <<>> /\ Head(s) = "+" THEN Tail(s) ELSE s
    IN  IF digits = <<>> THEN None ELSE U64ParseDigits(U64Zero, digits)

\* ------------------------------------------- sui_serde::BigInt<u64> (serde_as)

JsonNull == [json |-> "null"]

JsonBool(b) == [json |-> "bool", bool |-> b]

JsonNumber(n) == [json |-> "number", number |-> n]

\* a JSON string holding text
JsonString(t) == [json |-> "string", text |-> t]

\* a JSON string given by its characters
JsonChars(cs) == [json |-> "string", chars |-> cs]

JsonArray(items) == [json |-> "array", items |-> items]

\* BigInt<u64> as SerializeAs<u64>: the value's to_string, as a JSON string
BigInt_serialize_as(x) == JsonChars(u64_to_string(x))

\* BigInt<u64> as DeserializeAs<u64>: a JSON string, parsed with from_str;
\* None stands for the deserialization error
BigInt_deserialize_as(j) ==
    IF j.json = "string" /\ "chars" \in DOMAIN j THEN u64_from_str(j.chars) ELSE None

\* fastcrypto::encoding::Base64 as SerializeAs<Vec<u8>>: base64 text of the bytes
Base64_serialize_as(bytes) == [json |-> "string", base64 |-> bytes]

\* serde_as "Option<BigInt<u64>>": null when absent, the BigInt encoding when present
Option_BigInt_serialize_as(o) == IF IsSome(o) THEN BigInt_serialize_as(o[1]) ELSE JsonNull

\* serde_as "Vec<BigInt<u64>>": an array of BigInt encodings, in order
Vec_BigInt_serialize_as(v) == JsonArray([i \in 1..Len(v) |-> BigInt_serialize_as(v[i])])

\* serde_as "Option<Base64>"
Option_Base64_serialize_as(o) == IF IsSome(o) THEN Base64_serialize_as(o[1]) ELSE JsonNull

\* Option<String>
Option_String_serialize(o) == IF IsSome(o) THEN JsonString(o[1]) ELSE JsonNull

\* --------------------------------------------- identifiers and public keys

SUI_ADDRESS_LENGTH == 32

Bls12381PublicKey_LENGTH == 96

Ed25519PublicKey_LENGTH == 32

\* Byte strings are kept run-length encoded: a sequence of runs [n, b], each
\* standing for n > 0 bytes equal to b, adjacent runs of different bytes.
\* a byte string of n bytes, all equal to b
Bytes(n, b) == IF n = 0 THEN <<>> ELSE <<[n |-> n, b |-> b % 256]>>

\* bytes.len()
RECURSIVE ByteLen(_)
ByteLen(bytes) == IF bytes = <<>> THEN 0 ELSE Head(bytes).n + ByteLen(Tail(bytes))

\* internal identifiers: sui_types SuiAddress and ObjectID
SuiAddress(bytes) == [type |-> "SuiAddress", bytes |-> bytes]

ObjectID(bytes) == [type |-> "ObjectID", bytes |-> bytes]

\* impl From<SuiAddress> for sui_sdk2::types::Address (address.into())
Address_from(a) == [type |-> "Address", bytes |-> a.bytes]

\* impl From<ObjectID> for sui_sdk2::types::ObjectId (id.into())
ObjectId_from(id) == [type |-> "ObjectId", bytes |-> id.bytes]

\* Bls12381PublicKey::from_bytes: Ok(key) for a byte string of the key's
\* length, Err otherwise (None stands for the Err)
Bls12381PublicKey_from_bytes(bytes) ==
    IF ByteLen(bytes) = Bls12381PublicKey_LENGTH
    THEN Some([type |-> "Bls12381PublicKey", bytes |-> bytes])
    ELSE None

\* Ed25519PublicKey::from_bytes
Ed25519PublicKey_from_bytes(bytes) ==
    IF ByteLen(bytes) = Ed25519PublicKey_LENGTH
    THEN Some([type |-> "Ed25519PublicKey", bytes |-> bytes])
    ELSE None

\* ------------------------------------------------- results of a conversion
\* A From conversion either returns its value or panics (Result::unwrap on
\* an Err unwinds out of the conversion: nothing is returned).

Returned(x) == [panicked |-> FALSE, out |-> <<x>>]

Panicked == [panicked |-> TRUE, out |-> <<>>]

\* Option::map(|bytes| Bls12381PublicKey::from_bytes(bytes)) before the
\* unwrap: the inner Result of a present value, nothing for an absent one
Option_map_Bls12381(o) ==
    IF IsSome(o) THEN Some(Bls12381PublicKey_from_bytes(o[1])) ELSE None

\* Option::map(|bytes| Ed25519PublicKey::from_bytes(bytes)) before the unwrap
Option_map_Ed25519(o) ==
    IF IsSome(o) THEN Some(Ed25519PublicKey_from_bytes(o[1])) ELSE None

\* an unwrap inside Option::map panics exactly when the value is present
\* and its decoding is an Err
UnwrapFails(o) == IsSome(o) /\ ~IsSome(o[1])

\* Result::unwrap of a decoding that succeeded
Unwrap(r) == r[1]

\* ---------------------------------- impl From<SuiValidatorSummary> (project_validator)

\* the struct literal Self { .. }: every field but the keys is moved over
ValidatorSummary_literal(value, keys) ==
    [ address |-> Address_from(value.sui_address),
      protocol_public_key |-> keys.protocol,
      network_public_key |-> keys.network,
      worker_public_key |-> keys.worker,
      proof_of_possession_bytes |-> value.proof_of_possession_bytes,
      name |-> value.name,
      description |-> value.description,
      image_url |-> value.image_url,
      project_url |-> value.project_url,
      net_address |-> value.net_address,
      p2p_address |-> value.p2p_address,
      primary_address |-> value.primary_address,
      worker_address |-> value.worker_address,
      next_epoch_protocol_public_key |-> keys.next_protocol,
      next_epoch_network_public_key |-> keys.next_network,
      next_epoch_worker_public_key |-> keys.next_worker,
      next_epoch_proof_of_possession |-> value.next_epoch_proof_of_possession,
      next_epoch_net_address |-> value.next_epoch_net_address,
      next_epoch_p2p_address |-> value.next_epoch_p2p_address,
      next_epoch_primary_address |-> value.next_epoch_primary_address,
      next_epoch_worker_address |-> value.next_epoch_worker_address,
      voting_power |-> value.voting_power,
      operation_cap_id |-> ObjectId_from(value.operation_cap_id),
      gas_price |-> value.gas_price,
      commission_rate |-> value.commission_rate,
      next_epoch_stake |-> value.next_epoch_stake,
      next_epoch_gas_price |-> value.next_epoch_gas_price,
      next_epoch_commission_rate |-> value.next_epoch_commission_rate,
      staking_pool_id |-> ObjectId_from(value.staking_pool_id),
      staking_pool_activation_epoch |-> value.staking_pool_activation_epoch,
      staking_pool_deactivation_epoch |-> value.staking_pool_deactivation_epoch,
      staking_pool_sui_balance |-> value.staking_pool_sui_balance,
      rewards_pool |-> value.rewards_pool,
      pool_token_balance |-> value.pool_token_balance,
      pending_stake |-> value.pending_stake,
      pending_total_sui_withdraw |-> value.pending_total_sui_withdraw,
      pending_pool_token_withdraw |-> value.pending_pool_token_withdraw,
      exchange_rates_id |-> ObjectId_from(value.exchange_rates_id),
      exchange_rates_size |-> value.exchange_rates_size ]

\* the six from_bytes(..) decodings, each None when it is an Err
ValidatorSummary_decode(value) ==
    [ protocol |-> Bls12381PublicKey_from_bytes(value.protocol_pubkey_bytes),
      network |-> Ed25519PublicKey_from_bytes(value.network_pubkey_bytes),
      worker |-> Ed25519PublicKey_from_bytes(value.worker_pubkey_bytes),
      next_protocol |-> Option_map_Bls12381(value.next_epoch_protocol_pubkey_bytes),
      next_network |-> Option_map_Ed25519(value.next_epoch_network_pubkey_bytes),
      next_worker |-> Option_map_Ed25519(value.next_epoch_worker_pubkey_bytes) ]

\* some .unwrap() of the conversion meets an Err
ValidatorSummary_unwrap_fails(d) ==
    \/ ~IsSome(d.protocol) \/ ~IsSome(d.network) \/ ~IsSome(d.worker)
    \/ UnwrapFails(d.next_protocol) \/ UnwrapFails(d.next_network)
    \/ UnwrapFails(d.next_worker)

\* the decoded keys after their unwraps
ValidatorSummary_unwrapped(d) ==
    LET Unwrapped(o) == IF IsSome(o) THEN Some(Unwrap(o[1])) ELSE None
    IN  [ protocol |-> Unwrap(d.protocol),
          network |-> Unwrap(d.network),
          worker |-> Unwrap(d.worker),
          next_protocol |-> Unwrapped(d.next_protocol),
          next_network |-> Unwrapped(d.next_network),
          next_worker |-> Unwrapped(d.next_worker) ]

\* a bug of the conversion: an empty next-epoch address is taken for "no
\* change scheduled" and dropped
ValidatorSummary_from_defaulting(value) ==
    LET d == ValidatorSummary_decode(value)
    IN  IF ValidatorSummary_unwrap_fails(d)
        THEN Panicked
        ELSE Returned(
               [ValidatorSummary_literal(value, ValidatorSummary_unwrapped(d))
                   EXCEPT !.next_epoch_net_address = IF @ = Some("") THEN None ELSE @])

ValidatorSummary_from(value) ==
    LET d == ValidatorSummary_decode(value)
    IN  IF ValidatorSummary_unwrap_fails(d)
        THEN Panicked
        ELSE Returned(ValidatorSummary_literal(value, ValidatorSummary_unwrapped(d)))

\* ------------------------------- impl From<SuiSystemStateSummary> (project_epoch)

\* a bug of the conversion: validators whose keys do not decode are left out
\* (filter_map over the decoding results)
active_validators_collect_skipping(validators) ==
    LET Decodes(v) == ~ValidatorSummary_unwrap_fails(ValidatorSummary_decode(v))
        kept == SelectSeq(validators, Decodes)
    IN  Returned([i \in 1..Len(kept) |->
                    ValidatorSummary_literal(
                        kept[i], ValidatorSummary_unwrapped(ValidatorSummary_decode(kept[i])))])

\* active_validators.into_iter().map(Into::into).collect(): the conversions
\* run in order; a panic in any of them unwinds out of the collect
active_validators_collect(validators) ==
    LET each == [i \in 1..Len(validators) |-> ValidatorSummary_from(validators[i])]
    IN  IF \E i \in 1..Len(validators) : each[i].panicked
        THEN Panicked
        ELSE Returned([i \in 1..Len(validators) |-> each[i].out[1]])

\* a bug of the conversion: the pairs are collected through a map keyed by
\* address, which keeps one entry per address
at_risk_validators_collect_dedup(pairs) ==
    LET FirstOfKey(i) == \A j \in 1..(i - 1) : pairs[j][1] # pairs[i][1]
        RECURSIVE Keep(_)
        Keep(i) ==
            IF i > Len(pairs) THEN <<>>
            ELSE IF FirstOfKey(i)
            THEN <<<<Address_from(pairs[i][1]), pairs[i][2]>>>> \o Keep(i + 1)
            ELSE Keep(i + 1)
    IN  Keep(1)

\* at_risk_validators.into_iter().map(|(address, idx)| (address.into(), idx)).collect()
at_risk_validators_collect(pairs) ==
    [i \in 1..Len(pairs) |-> <<Address_from(pairs[i][1]), pairs[i][2]>>]

\* validator_report_records: (address.into(), reports.into_iter().map(Into::into).collect())
validator_report_records_collect(pairs) ==
    [i \in 1..Len(pairs) |->
        <<Address_from(pairs[i][1]),
          [j \in 1..Len(pairs[i][2]) |-> Address_from(pairs[i][2][j])]>>]

\* the struct literal Self { .. } around the converted validators
SystemStateSummary_literal(value, validators) ==
    [ epoch |-> value.epoch,
      protocol_version |-> value.protocol_version,
      system_state_version |-> value.system_state_version,
      storage_fund_total_object_storage_rebates |->
          value.storage_fund_total_object_storage_rebates,
      storage_fund_non_refundable_balance |-> value.storage_fund_non_refundable_balance,
      reference_gas_price |-> value.reference_gas_price,
      safe_mode |-> value.safe_mode,
      safe_mode_storage_rewards |-> value.safe_mode_storage_rewards,
      safe_mode_computation_rewards |-> value.safe_mode_computation_rewards,
      safe_mode_storage_rebates |-> value.safe_mode_storage_rebates,
      safe_mode_non_refundable_storage_fee |->
          value.safe_mode_non_refundable_storage_fee,
      epoch_start_timestamp_ms |-> value.epoch_start_timestamp_ms,
      epoch_duration_ms |-> value.epoch_duration_ms,
      stake_subsidy_start_epoch |-> value.stake_subsidy_start_epoch,
      max_validator_count |-> value.max_validator_count,
      min_validator_joining_stake |-> value.min_validator_joining_stake,
      validator_low_stake_threshold |-> value.validator_low_stake_threshold,
      validator_very_low_stake_threshold |-> value.validator_very_low_stake_threshold,
      validator_low_stake_grace_period |-> value.validator_low_stake_grace_period,
      stake_subsidy_balance |-> value.stake_subsidy_balance,
      stake_subsidy_distribution_counter |-> value.stake_subsidy_distribution_counter,
      stake_subsidy_current_distribution_amount |->
          value.stake_subsidy_current_distribution_amount,
      stake_subsidy_period_length |-> value.stake_subsidy_period_length,
      stake_subsidy_decrease_rate |-> value.stake_subsidy_decrease_rate,
      total_stake |-> value.total_stake,
      active_validators |-> validators,
      pending_active_validators_id |-> ObjectId_from(value.pending_active_validators_id),
      pending_active_validators_size |-> value.pending_active_validators_size,
      pending_removals |-> value.pending_removals,
      staking_pool_mappings_id |-> ObjectId_from(value.staking_pool_mappings_id),
      staking_pool_mappings_size |-> value.staking_pool_mappings_size,
      inactive_pools_id |-> ObjectId_from(value.inactive_pools_id),
      inactive_pools_size |-> value.inactive_pools_size,
      validator_candidates_id |-> ObjectId_from(value.validator_candidates_id),
      validator_candidates_size |-> value.validator_candidates_size,
      at_risk_validators |-> at_risk_validators_collect(value.at_risk_validators),
      validator_report_records |->
          validator_report_records_collect(value.validator_report_records) ]

\* a bug of the conversion: the safe-mode accumulators are reported as zero
\* while safe_mode is off
SystemStateSummary_from_masked(value) ==
    LET validators == active_validators_collect(value.active_validators)
        built == SystemStateSummary_literal(value, validators.out[1])
    IN  IF validators.panicked
        THEN Panicked
        ELSE Returned(
               IF value.safe_mode THEN built
               ELSE [built EXCEPT !.safe_mode_storage_rewards = U64Zero,
                                  !.safe_mode_computation_rewards = U64Zero,
                                  !.safe_mode_storage_rebates = U64Zero,
                                  !.safe_mode_non_refundable_storage_fee = U64Zero])

SystemStateSummary_from(value) ==
    LET validators == active_validators_collect(value.active_validators)
    IN  IF validators.panicked
        THEN Panicked
        ELSE Returned(SystemStateSummary_literal(value, validators.out[1]))

\* ------------------------------------------ #[derive(Serialize)] + serde_as
\* The JSON value of each REST type: one member per field, in the encoding
\* the field's serde_as attribute (or, without one, its type) selects.

\* Address, ObjectId and the public-key types serialize themselves as the
\* text form of their bytes
Display_serialize(x) == [json |-> "string", display |-> x]

\* Option of a public key
Option_Display_serialize(o) == IF IsSome(o) THEN Display_serialize(o[1]) ELSE JsonNull

\* Vec<Address>
Vec_Display_serialize(v) == JsonArray([i \in 1..Len(v) |-> Display_serialize(v[i])])

\* (_, BigInt<u64>): a two-element array, the second in the BigInt encoding
at_risk_pair_serialize(pair) ==
    JsonArray(<<Display_serialize(pair[1]), BigInt_serialize_as(pair[2])>>)

\* serde_as "Vec<(_, BigInt<u64>)>"
Vec_at_risk_pair_serialize(v) ==
    JsonArray([i \in 1..Len(v) |-> at_risk_pair_serialize(v[i])])

\* (Address, Vec<Address>)
report_record_serialize(pair) ==
    JsonArray(<<Display_serialize(pair[1]), Vec_Display_serialize(pair[2])>>)

\* Vec<(Address, Vec<Address>)>
Vec_report_record_serialize(v) ==
    JsonArray([i \in 1..Len(v) |-> report_record_serialize(v[i])])

\* the members of the JSON object of a ValidatorSummary
ValidatorSummary_members(v) ==
    [ address |-> Display_serialize(v.address),
      protocol_public_key |-> Display_serialize(v.protocol_public_key),
      network_public_key |-> Display_serialize(v.network_public_key),
      worker_public_key |-> Display_serialize(v.worker_public_key),
      proof_of_possession_bytes |->
          Base64_serialize_as(v.proof_of_possession_bytes),
      name |-> JsonString(v.name),
      description |-> JsonString(v.description),
      image_url |-> JsonString(v.image_url),
      project_url |-> JsonString(v.project_url),
      net_address |-> JsonString(v.net_address),
      p2p_address |-> JsonString(v.p2p_address),
      primary_address |-> JsonString(v.primary_address),
      worker_address |-> JsonString(v.worker_address),
      next_epoch_protocol_public_key |->
          Option_Display_serialize(v.next_epoch_protocol_public_key),
      next_epoch_network_public_key |->
          Option_Display_serialize(v.next_epoch_network_public_key),
      next_epoch_worker_public_key |->
          Option_Display_serialize(v.next_epoch_worker_public_key),
      next_epoch_proof_of_possession |->
          Option_Base64_serialize_as(v.next_epoch_proof_of_possession),
      next_epoch_net_address |->
          Option_String_serialize(v.next_epoch_net_address),
      next_epoch_p2p_address |->
          Option_String_serialize(v.next_epoch_p2p_address),
      next_epoch_primary_address |->
          Option_String_serialize(v.next_epoch_primary_address),
      next_epoch_worker_address |->
          Option_String_serialize(v.next_epoch_worker_address),
      voting_power |-> BigInt_serialize_as(v.voting_power),
      operation_cap_id |-> Display_serialize(v.operation_cap_id),
      gas_price |-> BigInt_serialize_as(v.gas_price),
      commission_rate |-> BigInt_serialize_as(v.commission_rate),
      next_epoch_stake |-> BigInt_serialize_as(v.next_epoch_stake),
      next_epoch_gas_price |-> BigInt_serialize_as(v.next_epoch_gas_price),
      next_epoch_commission_rate |->
          BigInt_serialize_as(v.next_epoch_commission_rate),
      staking_pool_id |-> Display_serialize(v.staking_pool_id),
      staking_pool_activation_epoch |->
          Option_BigInt_serialize_as(v.staking_pool_activation_epoch),
      staking_pool_deactivation_epoch |->
          Option_BigInt_serialize_as(v.staking_pool_deactivation_epoch),
      staking_pool_sui_balance |->
          BigInt_serialize_as(v.staking_pool_sui_balance),
      rewards_pool |-> BigInt_serialize_as(v.rewards_pool),
      pool_token_balance |-> BigInt_serialize_as(v.pool_token_balance),
      pending_stake |-> BigInt_serialize_as(v.pending_stake),
      pending_total_sui_withdraw |->
          BigInt_serialize_as(v.pending_total_sui_withdraw),
      pending_pool_token_withdraw |->
          BigInt_serialize_as(v.pending_pool_token_withdraw),
      exchange_rates_id |-> Display_serialize(v.exchange_rates_id),
      exchange_rates_size |-> BigInt_serialize_as(v.exchange_rates_size) ]

ValidatorSummary_serialize(v) == [json |-> "object", fields |-> ValidatorSummary_members(v)]

\* Vec<ValidatorSummary>
Vec_ValidatorSummary_serialize(v) ==
    JsonArray([i \in 1..Len(v) |-> ValidatorSummary_serialize(v[i])])

\* the members of the JSON object of a SystemStateSummary
SystemStateSummary_members(s) ==
    [ epoch |-> BigInt_serialize_as(s.epoch),
      protocol_version |-> BigInt_serialize_as(s.protocol_version),
      system_state_version |-> BigInt_serialize_as(s.system_state_version),
      storage_fund_total_object_storage_rebates |->
          BigInt_serialize_as(s.storage_fund_total_object_storage_rebates),
      storage_fund_non_refundable_balance |->
          BigInt_serialize_as(s.storage_fund_non_refundable_balance),
      reference_gas_price |-> BigInt_serialize_as(s.reference_gas_price),
      safe_mode |-> JsonBool(s.safe_mode),
      safe_mode_storage_rewards |->
          BigInt_serialize_as(s.safe_mode_storage_rewards),
      safe_mode_computation_rewards |->
          BigInt_serialize_as(s.safe_mode_computation_rewards),
      safe_mode_storage_rebates |->
          BigInt_serialize_as(s.safe_mode_storage_rebates),
      safe_mode_non_refundable_storage_fee |->
          BigInt_serialize_as(s.safe_mode_non_refundable_storage_fee),
      epoch_start_timestamp_ms |->
          BigInt_serialize_as(s.epoch_start_timestamp_ms),
      epoch_duration_ms |-> BigInt_serialize_as(s.epoch_duration_ms),
      stake_subsidy_start_epoch |->
          BigInt_serialize_as(s.stake_subsidy_start_epoch),
      max_validator_count |-> BigInt_serialize_as(s.max_validator_count),
      min_validator_joining_stake |->
          BigInt_serialize_as(s.min_validator_joining_stake),
      validator_low_stake_threshold |->
          BigInt_serialize_as(s.validator_low_stake_threshold),
      validator_very_low_stake_threshold |->
          BigInt_serialize_as(s.validator_very_low_stake_threshold),
      validator_low_stake_grace_period |->
          BigInt_serialize_as(s.validator_low_stake_grace_period),
      stake_subsidy_balance |-> BigInt_serialize_as(s.stake_subsidy_balance),
      stake_subsidy_distribution_counter |->
          BigInt_serialize_as(s.stake_subsidy_distribution_counter),
      stake_subsidy_current_distribution_amount |->
          BigInt_serialize_as(s.stake_subsidy_current_distribution_amount),
      stake_subsidy_period_length |->
          BigInt_serialize_as(s.stake_subsidy_period_length),
      stake_subsidy_decrease_rate |-> JsonNumber(s.stake_subsidy_decrease_rate),
      total_stake |-> BigInt_serialize_as(s.total_stake),
      active_validators |->
          Vec_ValidatorSummary_serialize(s.active_validators),
      pending_active_validators_id |->
          Display_serialize(s.pending_active_validators_id),
      pending_active_validators_size |->
          BigInt_serialize_as(s.pending_active_validators_size),
      pending_removals |-> Vec_BigInt_serialize_as(s.pending_removals),
      staking_pool_mappings_id |-> Display_serialize(s.staking_pool_mappings_id),
      staking_pool_mappings_size |->
          BigInt_serialize_as(s.staking_pool_mappings_size),
      inactive_pools_id |-> Display_serialize(s.inactive_pools_id),
      inactive_pools_size |-> BigInt_serialize_as(s.inactive_pools_size),
      validator_candidates_id |-> Display_serialize(s.validator_candidates_id),
      validator_candidates_size |->
          BigInt_serialize_as(s.validator_candidates_size),
      at_risk_validators |->
          Vec_at_risk_pair_serialize(s.at_risk_validators),
      validator_report_records |->
          Vec_report_record_serialize(s.validator_report_records) ]

\* a bug of the REST type: total_stake has lost its serde_as attribute and
\* is written as a JSON number
SystemStateSummary_serialize_native(s) ==
    [ json |-> "object",
      fields |-> [SystemStateSummary_members(s) EXCEPT
                     !.total_stake = JsonNumber(s.total_stake)] ]

SystemStateSummary_serialize(s) == [json |-> "object", fields |-> SystemStateSummary_members(s)]

\* the fields of ValidatorSummary declared u64
ValidatorSummary_u64_fields ==
    { "voting_power",
      "gas_price",
      "commission_rate",
      "next_epoch_stake",
      "next_epoch_gas_price",
      "next_epoch_commission_rate",
      "staking_pool_sui_balance",
      "rewards_pool",
      "pool_token_balance",
      "pending_stake",
      "pending_total_sui_withdraw",
      "pending_pool_token_withdraw",
      "exchange_rates_size" }

\* the fields of ValidatorSummary declared Option<u64>
ValidatorSummary_option_u64_fields ==
    { "staking_pool_activation_epoch",
      "staking_pool_deactivation_epoch" }

\* the fields of SystemStateSummary declared u64
SystemStateSummary_u64_fields ==
    { "epoch",
      "protocol_version",
      "system_state_version",
      "storage_fund_total_object_storage_rebates",
      "storage_fund_non_refundable_balance",
      "reference_gas_price",
      "safe_mode_storage_rewards",
      "safe_mode_computation_rewards",
      "safe_mode_storage_rebates",
      "safe_mode_non_refundable_storage_fee",
      "epoch_start_timestamp_ms",
      "epoch_duration_ms",
      "stake_subsidy_start_epoch",
      "max_validator_count",
      "min_validator_joining_stake",
      "validator_low_stake_threshold",
      "validator_very_low_stake_threshold",
      "validator_low_stake_grace_period",
      "stake_subsidy_balance",
      "stake_subsidy_distribution_counter",
      "stake_subsidy_current_distribution_amount",
      "stake_subsidy_period_length",
      "total_stake",
      "pending_active_validators_size",
      "staking_pool_mappings_size",
      "inactive_pools_size",
      "validator_candidates_size" }

\* ------------------------------------------------- sampled internal values
\* The internal records the conversions are applied to.  Every field of a
\* sampled record holds a value of its own (a function of the seed and of
\* the field's position), so that a field carried to the wrong place shows.

\* finite sequences over S of length at most n
SeqUpTo(S, n) == UNION {[1..k -> S] : k \in 0..n}

\* the k-th u64 of a seed: small values for odd seeds (0 for k = 0), values
\* at the top of the range for even seeds (2^64 - 1 for seed 2, k = 0)
U64Of(seed, k) ==
    IF seed % 2 = 1
    THEN U64(0, 0, seed - 1, k)
    ELSE U64(LimbBase - 1, LimbBase - 1, LimbBase + 1 - seed, LimbBase - 1 - k)

Str(field, seed) == field \o "-" \o ToString(seed)

KeyBytes(kind, b) ==
    CASE kind = "bls" -> Bytes(Bls12381PublicKey_LENGTH, b)
      [] kind = "ed" -> Bytes(Ed25519PublicKey_LENGTH, b)
      [] OTHER -> <<>>

\* a next-epoch key: absent, present and well-formed, or present and malformed
NextKeyBytes(choice, good, bad, b) ==
    CASE choice = "none" -> None
      [] choice = "ok" -> Some(KeyBytes(good, b))
      [] OTHER -> Some(KeyBytes(bad, b))

\* an optional field: absent, present, or present with a zero-length/zero value
OptionOf(opt, value, empty) ==
    CASE opt = "absent" -> None
      [] opt = "present" -> Some(value)
      [] OTHER -> Some(empty)

KeyChoices == [1..3 -> {"ok", "bad"}]

NextKeyChoices == [1..3 -> {"none", "ok", "bad"}]

OptionChoices == {"absent", "present", "empty"}

AllOk == [i \in 1..3 |-> "ok"]

AllNone == [i \in 1..3 |-> "none"]

SuiValidatorSummaryOf(seed, cur, nxt, opt) ==
    [ sui_address |-> SuiAddress(Bytes(SUI_ADDRESS_LENGTH, seed)),
      protocol_pubkey_bytes |-> KeyBytes(IF cur[1] = "ok" THEN "bls" ELSE "ed", 16 * seed + 2),
      network_pubkey_bytes |-> KeyBytes(IF cur[2] = "ok" THEN "ed" ELSE "bls", 16 * seed + 3),
      worker_pubkey_bytes |-> KeyBytes(IF cur[3] = "ok" THEN "ed" ELSE "empty", 16 * seed + 4),
      proof_of_possession_bytes |-> Bytes(3, 16 * seed + 5),
      name |-> Str("name", seed),
      description |-> Str("description", seed),
      image_url |-> Str("image_url", seed),
      project_url |-> Str("project_url", seed),
      net_address |-> Str("net_address", seed),
      p2p_address |-> Str("p2p_address", seed),
      primary_address |-> Str("primary_address", seed),
      worker_address |-> Str("worker_address", seed),
      next_epoch_protocol_pubkey_bytes |-> NextKeyBytes(nxt[1], "bls", "empty", 16 * seed + 14),
      next_epoch_proof_of_possession |-> OptionOf(opt, Bytes(3, 16 * seed + 15), <<>>),
      next_epoch_network_pubkey_bytes |-> NextKeyBytes(nxt[2], "ed", "empty", 16 * seed + 16),
      next_epoch_worker_pubkey_bytes |-> NextKeyBytes(nxt[3], "ed", "bls", 16 * seed + 17),
      next_epoch_net_address |-> OptionOf(opt, Str("next_epoch_net_address", seed), ""),
      next_epoch_p2p_address |-> OptionOf(opt, Str("next_epoch_p2p_address", seed), ""),
      next_epoch_primary_address |-> OptionOf(opt, Str("next_epoch_primary_address", seed), ""),
      next_epoch_worker_address |-> OptionOf(opt, Str("next_epoch_worker_address", seed), ""),
      voting_power |-> U64Of(seed, 22),
      operation_cap_id |-> ObjectID(Bytes(SUI_ADDRESS_LENGTH, 16 * seed + 23)),
      gas_price |-> U64Of(seed, 24),
      commission_rate |-> U64Of(seed, 25),
      next_epoch_stake |-> U64Of(seed, 26),
      next_epoch_gas_price |-> U64Of(seed, 27),
      next_epoch_commission_rate |-> U64Of(seed, 28),
      staking_pool_id |-> ObjectID(Bytes(SUI_ADDRESS_LENGTH, 16 * seed + 29)),
      staking_pool_activation_epoch |-> OptionOf(opt, U64Of(seed, 30), U64Zero),
      staking_pool_deactivation_epoch |-> OptionOf(opt, U64Of(seed, 31), U64Zero),
      staking_pool_sui_balance |-> U64Of(seed, 32),
      rewards_pool |-> U64Of(seed, 33),
      pool_token_balance |-> U64Of(seed, 34),
      pending_stake |-> U64Of(seed, 35),
      pending_total_sui_withdraw |-> U64Of(seed, 36),
      pending_pool_token_withdraw |-> U64Of(seed, 37),
      exchange_rates_id |-> ObjectID(Bytes(SUI_ADDRESS_LENGTH, 16 * seed + 38)),
      exchange_rates_size |-> U64Of(seed, 39) ]

\* the validators a sampled validator list is made of: two well-formed
\* ones, one whose protocol key has the length of another scheme, and one
\* whose next-epoch worker key is malformed
GoodValidator(seed) ==
    SuiValidatorSummaryOf(seed, AllOk,
                          IF seed % 2 = 0 THEN [i \in 1..3 |-> "ok"] ELSE AllNone,
                          IF seed % 2 = 0 THEN "present" ELSE "absent")

BadProtocolKeyValidator ==
    SuiValidatorSummaryOf(1, [AllOk EXCEPT ![1] = "bad"], AllNone, "empty")

BadNextWorkerKeyValidator ==
    SuiValidatorSummaryOf(2, AllOk, [AllNone EXCEPT ![3] = "bad"], "present")

ListValidators ==
    {GoodValidator(1), GoodValidator(2), BadProtocolKeyValidator, BadNextWorkerKeyValidator}

\* entries the three auxiliary lists of a sampled state are made of: an
\* address, a u64, and the addresses reporting it (with repeated addresses)
AuxEntry(a, n, reporters) ==
    [ address |-> SuiAddress(Bytes(SUI_ADDRESS_LENGTH, a)), n |-> n,
      reporters |-> [i \in 1..Len(reporters) |->
                        SuiAddress(Bytes(SUI_ADDRESS_LENGTH, reporters[i]))] ]

AuxEntries ==
    { AuxEntry(1, U64(32, 0, 0, 1), <<>>),
      AuxEntry(2, U64Max, <<1>>),
      AuxEntry(1, U64Zero, <<2, 2, 1>>) }

SuiSystemStateSummaryOf(seed, safe, validators, aux) ==
    [ epoch |-> U64Of(seed, 1),
      protocol_version |-> U64Of(seed, 2),
      system_state_version |-> U64Of(seed, 3),
      storage_fund_total_object_storage_rebates |-> U64Of(seed, 4),
      storage_fund_non_refundable_balance |-> U64Of(seed, 5),
      reference_gas_price |-> U64Of(seed, 6),
      safe_mode |-> safe,
      safe_mode_storage_rewards |-> U64Of(seed, 0),
      safe_mode_computation_rewards |-> U64Of(seed, 9),
      safe_mode_storage_rebates |-> U64Of(seed, 10),
      safe_mode_non_refundable_storage_fee |-> U64Of(seed, 11),
      epoch_start_timestamp_ms |-> U64Of(seed, 12),
      epoch_duration_ms |-> U64Of(seed, 13),
      stake_subsidy_start_epoch |-> U64Of(seed, 14),
      max_validator_count |-> U64Of(seed, 15),
      min_validator_joining_stake |-> U64Of(seed, 16),
      validator_low_stake_threshold |-> U64Of(seed, 17),
      validator_very_low_stake_threshold |-> U64Of(seed, 18),
      validator_low_stake_grace_period |-> U64Of(seed, 19),
      stake_subsidy_balance |-> U64Of(seed, 20),
      stake_subsidy_distribution_counter |-> U64Of(seed, 21),
      stake_subsidy_current_distribution_amount |-> U64Of(seed, 22),
      stake_subsidy_period_length |-> U64Of(seed, 23),
      stake_subsidy_decrease_rate |-> 1000 * seed,
      total_stake |-> U64Of(seed, 25),
      active_validators |-> validators,
      pending_active_validators_id |-> ObjectID(Bytes(SUI_ADDRESS_LENGTH, 16 * seed + 27)),
      pending_active_validators_size |-> U64Of(seed, 28),
      pending_removals |-> [i \in 1..Len(aux) |-> aux[i].n] \o <<U64Of(seed, 29)>>,
      staking_pool_mappings_id |-> ObjectID(Bytes(SUI_ADDRESS_LENGTH, 16 * seed + 30)),
      staking_pool_mappings_size |-> U64Of(seed, 31),
      inactive_pools_id |-> ObjectID(Bytes(SUI_ADDRESS_LENGTH, 16 * seed + 32)),
      inactive_pools_size |-> U64Of(seed, 33),
      validator_candidates_id |-> ObjectID(Bytes(SUI_ADDRESS_LENGTH, 16 * seed + 34)),
      validator_candidates_size |-> U64Of(seed, 35),
      at_risk_validators |-> [i \in 1..Len(aux) |-> <<aux[i].address, aux[i].n>>],
      validator_report_records |-> [i \in 1..Len(aux) |-> <<aux[i].address, aux[i].reporters>>] ]

\* the internal validator records the conversion is applied to on their own
ValidatorInputs ==
    { SuiValidatorSummaryOf(seed, cur, nxt, opt) :
        seed \in 1..MaxSeed, cur \in KeyChoices, nxt \in NextKeyChoices,
        opt \in OptionChoices }

\* the internal states the conversion is applied to
StateInputs ==
    { SuiSystemStateSummaryOf(seed, safe, validators, aux) :
        seed \in 1..MaxSeed, safe \in BOOLEAN,
        validators \in SeqUpTo(ListValidators, MaxValidators),
        aux \in SeqUpTo(AuxEntries, MaxAux) }

\* ------------------------------------------------------------------ state

VARIABLES
    store,       \* the provider's committed internal state (None before the first commit)
    committed,   \* every internal state the provider has held
    commits,     \* number of commits made by the consensus layer
    pc,          \* per request: its position in get_system_state_summary
    accept,      \* per request: the AcceptFormat it was extracted with
    reads,       \* per request: calls of state.get_system_state_summary() made
    read_state,  \* per request: the provider's state at the moment of its read
    provided,    \* per request: what its provider call returned
    summary,     \* per request: the handler's local `summary`
    result,      \* per request: the value the handler returned
    phase,       \* conversion run: "input", "converted" or "serialized"
    input,       \* conversion run: the internal value given to the conversion
    output,      \* conversion run: what the From conversion returned (or its panic)
    wire         \* conversion run: the JSON value the output serializes to

handler_vars ==
    <<store, committed, commits, pc, accept, reads, read_state, provided, summary, result>>

conversion_vars == <<phase, input, output, wire>>

vars == <<store, committed, commits, pc, accept, reads, read_state, provided, summary,
          result, phase, input, output, wire>>

Requests == 1..NumRequests

\* enum AcceptFormat
AcceptFormats == {"Json", "Bcs"}

\* ----------------------------------------------------------- handler results

NoResult == [tag |-> "None", status |-> 0, kind |-> "", body |-> None]

\* Ok(Json(summary))
OkJson(body) == [tag |-> "Ok", status |-> 200, kind |-> "", body |-> Some(body)]

\* Err(RestError { status, .. })
Err(status, kind) == [tag |-> "Err", status |-> status, kind |-> kind, body |-> None]

\* RestError::new(StatusCode::BAD_REQUEST, "invalid accept type")
UnsupportedFormat == Err(400, "UnsupportedFormat")

\* -------------------------------------------------------- the State Provider

ProviderErrors == {"NotYetInitialized", "ReadFailure"}

\* the states the consensus layer commits in the handler specification
CommitStates ==
    { SuiSystemStateSummaryOf(1, FALSE, <<GoodValidator(1)>>, <<>>),
      SuiSystemStateSummaryOf(2, TRUE, <<GoodValidator(2), GoodValidator(1)>>,
                              <<AuxEntry(2, U64Max, <<1>>), AuxEntry(1, U64Zero, <<2, 2, 1>>)>>),
      SuiSystemStateSummaryOf(2, FALSE, <<GoodValidator(1), BadNextWorkerKeyValidator>>,
                              <<>>),
      \* an epoch change with no protocol upgrade
      [SuiSystemStateSummaryOf(1, FALSE, <<GoodValidator(1)>>, <<>>)
          EXCEPT !.epoch = U64Of(2, 1)] }

\* no provider call made yet
NotCalled == [tag |-> "None", error |-> "", returned |-> None, panicked |-> FALSE]

\* StateReader::get_system_state_summary(&self) -> Result<SystemStateSummary>:
\* the outcomes of one call on a provider holding `held`.  A read can fail;
\* a successful read takes the whole committed state at one point and hands
\* it back already converted to the REST type.
StateReader_get_system_state_summary(held) ==
    IF ~IsSome(held)
    THEN { [tag |-> "Err", error |-> e, returned |-> None, panicked |-> FALSE] :
              e \in ProviderErrors }
    ELSE { [tag |-> "Err", error |-> "ReadFailure", returned |-> None, panicked |-> FALSE] }
         \cup
         { LET converted == SystemStateSummary_from(held[1])
           IN  [tag |-> "Ok", error |-> "", returned |-> converted.out,
                panicked |-> converted.panicked] }

\* `?` on the provider's Err: From::from(e) keeps the error's kind; the
\* provider's failures are reported with a server-error status
Try_err(e) == Err(500, e)

\* ------------------------------------------------------------ handler steps

\* a request reaches the handler with its extracted AcceptFormat
Arrive(r, format) ==
    /\ pc[r] = "idle"
    /\ accept' = [accept EXCEPT ![r] = format]
    /\ pc' = [pc EXCEPT ![r] = "accept"]
    /\ UNCHANGED <<store, committed, commits, reads, read_state, provided, summary, result>>
    /\ UNCHANGED conversion_vars

\* a bug of the handler: the accept format is not checked before the read
AcceptCheck_unchecked(r) ==
    /\ pc[r] = "accept"
    /\ pc' = [pc EXCEPT ![r] = "read"]
    /\ UNCHANGED <<store, committed, commits, accept, reads, read_state, provided, summary,
                   result>>
    /\ UNCHANGED conversion_vars

\* match accept { AcceptFormat::Json => {} _ => return Err(..BAD_REQUEST..) }
AcceptCheck(r) ==
    /\ pc[r] = "accept"
    /\ IF accept[r] = "Json"
       THEN /\ pc' = [pc EXCEPT ![r] = "read"]
            /\ UNCHANGED result
       ELSE /\ pc' = [pc EXCEPT ![r] = "done"]
            /\ result' = [result EXCEPT ![r] = UnsupportedFormat]
    /\ UNCHANGED <<store, committed, commits, accept, reads, read_state, provided, summary>>
    /\ UNCHANGED conversion_vars

\* a bug of the handler: a failed read is tried again
ProviderRead_retry(r) ==
    /\ pc[r] = "read"
    /\ reads' = [reads EXCEPT ![r] = @ + 1]
    /\ read_state' = [read_state EXCEPT ![r] = store]
    /\ \E got \in StateReader_get_system_state_summary(store) :
          /\ provided' = [provided EXCEPT ![r] = got]
          /\ IF got.tag = "Err"
             THEN /\ IF reads[r] = 0
                     THEN UNCHANGED <<pc, result>>
                     ELSE /\ pc' = [pc EXCEPT ![r] = "done"]
                          /\ result' = [result EXCEPT ![r] = Try_err(got.error)]
                  /\ UNCHANGED summary
             ELSE IF got.panicked
             THEN /\ pc' = [pc EXCEPT ![r] = "panicked"]
                  /\ UNCHANGED <<summary, result>>
             ELSE /\ pc' = [pc EXCEPT ![r] = "respond"]
                  /\ summary' = [summary EXCEPT ![r] = got.returned]
                  /\ UNCHANGED result
    /\ UNCHANGED <<store, committed, commits, accept>>
    /\ UNCHANGED conversion_vars

\* a bug of the handler: the read is served from any state the provider has
\* held (a cache that is not refreshed), not from the state it holds now
ProviderRead_stale(r) ==
    /\ pc[r] = "read"
    /\ reads' = [reads EXCEPT ![r] = @ + 1]
    /\ \E held \in {store} \cup {Some(s) : s \in committed} :
          /\ read_state' = [read_state EXCEPT ![r] = held]
          /\ \E got \in StateReader_get_system_state_summary(held) :
                /\ provided' = [provided EXCEPT ![r] = got]
                /\ IF got.tag = "Err"
                   THEN /\ pc' = [pc EXCEPT ![r] = "done"]
                        /\ result' = [result EXCEPT ![r] = Try_err(got.error)]
                        /\ UNCHANGED summary
                   ELSE IF got.panicked
                   THEN /\ pc' = [pc EXCEPT ![r] = "panicked"]
                        /\ UNCHANGED <<summary, result>>
                   ELSE /\ pc' = [pc EXCEPT ![r] = "respond"]
                        /\ summary' = [summary EXCEPT ![r] = got.returned]
                        /\ UNCHANGED result
    /\ UNCHANGED <<store, committed, commits, accept>>
    /\ UNCHANGED conversion_vars

\* let summary = state.get_system_state_summary()?;
ProviderRead(r) ==
    /\ pc[r] = "read"
    /\ reads' = [reads EXCEPT ![r] = @ + 1]
    /\ read_state' = [read_state EXCEPT ![r] = store]
    /\ \E got \in StateReader_get_system_state_summary(store) :
          /\ provided' = [provided EXCEPT ![r] = got]
          /\ IF got.tag = "Err"
             THEN /\ pc' = [pc EXCEPT ![r] = "done"]
                  /\ result' = [result EXCEPT ![r] = Try_err(got.error)]
                  /\ UNCHANGED summary
             ELSE IF got.panicked
             THEN /\ pc' = [pc EXCEPT ![r] = "panicked"]
                  /\ UNCHANGED <<summary, result>>
             ELSE /\ pc' = [pc EXCEPT ![r] = "respond"]
                  /\ summary' = [summary EXCEPT ![r] = got.returned]
                  /\ UNCHANGED result
    /\ UNCHANGED <<store, committed, commits, accept>>
    /\ UNCHANGED conversion_vars

\* a bug of the handler: the body is converted once more on the way out and
\* loses its validators
Respond_rebuilt(r) ==
    /\ pc[r] = "respond"
    /\ pc' = [pc EXCEPT ![r] = "done"]
    /\ result' = [result EXCEPT
                    ![r] = OkJson([summary[r][1] EXCEPT !.active_validators = <<>>])]
    /\ UNCHANGED <<store, committed, commits, accept, reads, read_state, provided, summary>>
    /\ UNCHANGED conversion_vars

\* a bug of the handler: the response is served from a value shared by the
\* requests (the summary some request has fetched), not from this request's own
Respond_shared(r) ==
    /\ pc[r] = "respond"
    /\ pc' = [pc EXCEPT ![r] = "done"]
    /\ \E q \in Requests :
          /\ IsSome(summary[q])
          /\ result' = [result EXCEPT ![r] = OkJson(summary[q][1])]
    /\ UNCHANGED <<store, committed, commits, accept, reads, read_state, provided, summary>>
    /\ UNCHANGED conversion_vars

\* Ok(Json(summary))
Respond(r) ==
    /\ pc[r] = "respond"
    /\ pc' = [pc EXCEPT ![r] = "done"]
    /\ result' = [result EXCEPT ![r] = OkJson(summary[r][1])]
    /\ UNCHANGED <<store, committed, commits, accept, reads, read_state, provided, summary>>
    /\ UNCHANGED conversion_vars

\* the consensus layer commits a new state; epoch, protocol version and
\* system-state version never go back
Commit(s) ==
    /\ commits < MaxCommits
    /\ Some(s) # store
    /\ IsSome(store) =>
          /\ U64Le(store[1].epoch, s.epoch)
          /\ U64Le(store[1].protocol_version, s.protocol_version)
          /\ U64Le(store[1].system_state_version, s.system_state_version)
    /\ store' = Some(s)
    /\ committed' = committed \cup {s}
    /\ commits' = commits + 1
    /\ UNCHANGED <<pc, accept, reads, read_state, provided, summary, result>>
    /\ UNCHANGED conversion_vars

\* --------------------------------------------------------- conversion steps

NotRun == [panicked |-> FALSE, out |-> <<>>]

\* ValidatorSummary::from(value)
ConvertValidator ==
    /\ phase = "input"
    /\ input.kind = "validator"
    /\ output' = ValidatorSummary_from(input.value)
    /\ phase' = "converted"
    /\ UNCHANGED <<input, wire>>
    /\ UNCHANGED handler_vars

\* SystemStateSummary::from(value)
ConvertState ==
    /\ phase = "input"
    /\ input.kind = "state"
    /\ output' = SystemStateSummary_from(input.value)
    /\ phase' = "converted"
    /\ UNCHANGED <<input, wire>>
    /\ UNCHANGED handler_vars

\* serde_json serialization of a returned ValidatorSummary
SerializeValidator ==
    /\ phase = "converted"
    /\ input.kind = "validator"
    /\ ~output.panicked
    /\ wire' = ValidatorSummary_serialize(output.out[1])
    /\ phase' = "serialized"
    /\ UNCHANGED <<input, output>>
    /\ UNCHANGED handler_vars

\* serde_json serialization of a returned SystemStateSummary
SerializeState ==
    /\ phase = "converted"
    /\ input.kind = "state"
    /\ ~output.panicked
    /\ wire' = SystemStateSummary_serialize(output.out[1])
    /\ phase' = "serialized"
    /\ UNCHANGED <<input, output>>
    /\ UNCHANGED handler_vars

\* ---------------------------------------------------------- specifications

HandlerInit ==
    /\ store = None
    /\ committed = {}
    /\ commits = 0
    /\ pc = [r \in Requests |-> "idle"]
    /\ accept = [r \in Requests |-> "Json"]
    /\ reads = [r \in Requests |-> 0]
    /\ read_state = [r \in Requests |-> None]
    /\ provided = [r \in Requests |-> NotCalled]
    /\ summary = [r \in Requests |-> None]
    /\ result = [r \in Requests |-> NoResult]

ConversionIdle ==
    /\ phase = "idle"
    /\ input = [kind |-> "none", value |-> <<>>]
    /\ output = NotRun
    /\ wire = JsonNull

\* the handler under concurrent requests and commits
Init == HandlerInit /\ ConversionIdle

Next ==
    \/ \E r \in Requests, format \in AcceptFormats : Arrive(r, format)
    \/ \E r \in Requests : AcceptCheck(r)
    \/ \E r \in Requests : ProviderRead(r)
    \/ \E r \in Requests : Respond(r)
    \/ \E s \in CommitStates : Commit(s)

Spec == Init /\ [][Next]_vars

\* the conversions and the serialization, applied to every sampled input
ProjInit ==
    /\ HandlerInit
    /\ phase = "input"
    /\ input \in {[kind |-> "validator", value |-> v] : v \in ValidatorInputs}
                 \cup {[kind |-> "state", value |-> s] : s \in StateInputs}
    /\ output = NotRun
    /\ wire = JsonNull

ProjNext ==
    \/ ConvertValidator
    \/ ConvertState
    \/ SerializeValidator
    \/ SerializeState

SpecProj == ProjInit /\ [][ProjNext]_vars

\* ==================================================================== claims

Terminated(r) == pc[r] \in {"done", "panicked"}

\* C1: a request whose accept format is not Json is answered with the client
\* error (400, UnsupportedFormat) and never reads the provider: the format
\* check comes before any read, so a request that has read was Json and had
\* passed the check.
C1_RejectedBeforeAnyRead ==
    \A r \in Requests :
        /\ (accept[r] # "Json" /\ pc[r] \notin {"idle", "accept"}) =>
              /\ pc[r] = "done"
              /\ result[r] = UnsupportedFormat
              /\ result[r].status = 400
              /\ reads[r] = 0
              /\ provided[r] = NotCalled
        /\ reads[r] > 0 => (accept[r] = "Json" /\ pc[r] \notin {"idle", "accept"})

\* a Bcs request was rejected while the provider held a state it could have read
C1_Witness ==
    \E r \in Requests :
        /\ pc[r] = "done" /\ accept[r] = "Bcs" /\ result[r] = UnsupportedFormat
        /\ IsSome(store)

\* C2: with Json accepted and the provider read failing, the handler returns
\* that provider error, of the same kind, after exactly one provider call and
\* with no summary body.
C2_ProviderErrorPropagated ==
    \A r \in Requests :
        (pc[r] = "done" /\ provided[r].tag = "Err") =>
            /\ accept[r] = "Json"
            /\ provided[r].error \in ProviderErrors
            /\ result[r].tag = "Err"
            /\ result[r].kind = provided[r].error
            /\ reads[r] = 1
            /\ result[r].body = None
            /\ summary[r] = None

\* both provider errors have been returned, each by a request of its own
C2_Witness ==
    \E r, q \in Requests :
        /\ pc[r] = "done" /\ result[r].kind = "NotYetInitialized" /\ reads[r] = 1
        /\ pc[q] = "done" /\ result[q].kind = "ReadFailure" /\ reads[q] = 1
        /\ IsSome(read_state[q])

\* C3 as stated: the provider hands the handler the internal state value s
\* and the handler's body is the conversion of it.
C3_HandlerAppliesProjection ==
    \A r \in Requests :
        (pc[r] = "done" /\ result[r].tag = "Ok") =>
            /\ provided[r].returned = read_state[r]
            /\ result[r].body = SystemStateSummary_from(read_state[r][1]).out

\* C3 as amended: on success the body is exactly the value the provider call
\* returned, which is already a SystemStateSummary (the handler converts
\* nothing), and that value is the From conversion of the internal state the
\* provider read.
C3_BodyIsProvidedSummary ==
    \A r \in Requests :
        (pc[r] = "done" /\ accept[r] = "Json" /\ provided[r].tag = "Ok") =>
            /\ result[r].tag = "Ok"
            /\ result[r].status = 200
            /\ result[r].body = provided[r].returned
            /\ result[r].body = SystemStateSummary_from(read_state[r][1]).out

\* a request has answered with a body holding validators
C3_Witness ==
    \E r \in Requests :
        /\ pc[r] = "done" /\ result[r].tag = "Ok"
        /\ Len(result[r].body[1].active_validators) = 2

\* the key bytes of an internal validator record all decode under their
\* schemes (current keys, and next-epoch keys when present)
KeysDecodable(v) ==
    /\ IsSome(Bls12381PublicKey_from_bytes(v.protocol_pubkey_bytes))
    /\ IsSome(Ed25519PublicKey_from_bytes(v.network_pubkey_bytes))
    /\ IsSome(Ed25519PublicKey_from_bytes(v.worker_pubkey_bytes))
    /\ IsSome(v.next_epoch_protocol_pubkey_bytes) =>
          IsSome(Bls12381PublicKey_from_bytes(v.next_epoch_protocol_pubkey_bytes[1]))
    /\ IsSome(v.next_epoch_network_pubkey_bytes) =>
          IsSome(Ed25519PublicKey_from_bytes(v.next_epoch_network_pubkey_bytes[1]))
    /\ IsSome(v.next_epoch_worker_pubkey_bytes) =>
          IsSome(Ed25519PublicKey_from_bytes(v.next_epoch_worker_pubkey_bytes[1]))

AllKeysDecodable(s) ==
    \A i \in 1..Len(s.active_validators) : KeysDecodable(s.active_validators[i])

ConvertedValidator == phase # "input" /\ input.kind = "validator"

ConvertedState == phase # "input" /\ input.kind = "state"

\* C4: a key that fails to decode is never swallowed: the conversion of such
\* a validator returns no ValidatorSummary at all, and the conversion of a
\* state holding such a validator returns no SystemStateSummary at all (none
\* with the validator skipped, none with the validators before it), and
\* nothing of it is serialized.
C4_KeyFailureYieldsNothing ==
    /\ (ConvertedValidator /\ ~KeysDecodable(input.value)) =>
          (output = Panicked /\ output.out = <<>> /\ phase = "converted" /\ wire = JsonNull)
    /\ (ConvertedState /\ ~AllKeysDecodable(input.value)) =>
          (output = Panicked /\ output.out = <<>> /\ phase = "converted" /\ wire = JsonNull)

\* a state whose first validator is well-formed and whose second has a key
\* that does not decode has been converted
C4_Witness ==
    /\ ConvertedState
    /\ Len(input.value.active_validators) = 2
    /\ KeysDecodable(input.value.active_validators[1])
    /\ ~KeysDecodable(input.value.active_validators[2])
    /\ output.panicked

\* C5 as stated: every request that ends in failure ends with one of three
\* typed errors returned to the caller, a key that fails to decode giving
\* MalformedKeyMaterial; no request ends without an error value.
C5_EveryFailureIsTyped ==
    \A r \in Requests :
        (Terminated(r) /\ result[r].tag # "Ok") =>
            /\ result[r].tag = "Err"
            /\ result[r].kind \in
                  {"UnsupportedFormat", "NotYetInitialized", "ReadFailure",
                   "MalformedKeyMaterial"}

\* an optional key: present on both sides or on neither, with the same bytes
OptionalKeyPreserved(ext, int) ==
    /\ IsSome(ext) <=> IsSome(int)
    /\ IsSome(int) => ext[1].bytes = int[1]

\* the ten optional fields of a validator, external against internal
OptionalFieldsPreserved(ext, int) ==
    /\ OptionalKeyPreserved(ext.next_epoch_protocol_public_key,
                            int.next_epoch_protocol_pubkey_bytes)
    /\ ext.next_epoch_protocol_public_key # None =>
          ext.next_epoch_protocol_public_key[1].type = "Bls12381PublicKey"
    /\ OptionalKeyPreserved(ext.next_epoch_network_public_key,
                            int.next_epoch_network_pubkey_bytes)
    /\ OptionalKeyPreserved(ext.next_epoch_worker_public_key,
                            int.next_epoch_worker_pubkey_bytes)
    /\ \A f \in {"next_epoch_proof_of_possession", "next_epoch_net_address",
                 "next_epoch_p2p_address", "next_epoch_primary_address",
                 "next_epoch_worker_address", "staking_pool_activation_epoch",
                 "staking_pool_deactivation_epoch"} :
          /\ IsSome(ext[f]) <=> IsSome(int[f])
          /\ ext[f] = int[f]

\* C6: for a validator record with decodable keys the conversion returns, and
\* each of the ten optional fields is present outside exactly when it is
\* present inside, with the same content: absent stays absent, a present
\* empty or zero value stays present.
C6_OptionalPresencePreserved ==
    /\ (ConvertedValidator /\ KeysDecodable(input.value)) =>
          /\ ~output.panicked
          /\ OptionalFieldsPreserved(output.out[1], input.value)
    /\ (ConvertedState /\ AllKeysDecodable(input.value)) =>
          /\ ~output.panicked
          /\ Len(output.out[1].active_validators) = Len(input.value.active_validators)
          /\ \A i \in 1..Len(input.value.active_validators) :
                OptionalFieldsPreserved(output.out[1].active_validators[i],
                                        input.value.active_validators[i])

\* a validator with an absent next-epoch protocol key, a present next-epoch
\* network key and present but empty optional values has been converted
C6_Witness ==
    /\ ConvertedValidator
    /\ ~output.panicked
    /\ input.value.next_epoch_protocol_pubkey_bytes = None
    /\ input.value.next_epoch_network_pubkey_bytes # None
    /\ input.value.next_epoch_net_address = Some("")
    /\ input.value.staking_pool_activation_epoch = Some(U64Zero)
    /\ output.out[1].next_epoch_net_address = Some("")
    /\ output.out[1].next_epoch_protocol_public_key = None

\* C7: the conversion of a state keeps the length and the order of every
\* list: the element at position i of active_validators, pending_removals,
\* at_risk_validators, validator_report_records and of each reporter list is
\* the conversion of the internal element at position i, each pair keeping
\* its own second component; nothing is sorted, merged or dropped.
C7_ListsKeepLengthAndOrder ==
    (ConvertedState /\ AllKeysDecodable(input.value)) =>
        /\ ~output.panicked
        /\ LET int == input.value
               ext == output.out[1]
           IN  /\ Len(ext.active_validators) = Len(int.active_validators)
               /\ \A i \in 1..Len(int.active_validators) :
                     Returned(ext.active_validators[i])
                         = ValidatorSummary_from(int.active_validators[i])
               /\ Len(ext.pending_removals) = Len(int.pending_removals)
               /\ \A i \in 1..Len(int.pending_removals) :
                     ext.pending_removals[i] = int.pending_removals[i]
               /\ Len(ext.at_risk_validators) = Len(int.at_risk_validators)
               /\ \A i \in 1..Len(int.at_risk_validators) :
                     /\ ext.at_risk_validators[i][1].bytes = int.at_risk_validators[i][1].bytes
                     /\ ext.at_risk_validators[i][2] = int.at_risk_validators[i][2]
               /\ Len(ext.validator_report_records) = Len(int.validator_report_records)
               /\ \A i \in 1..Len(int.validator_report_records) :
                     /\ ext.validator_report_records[i][1].bytes
                            = int.validator_report_records[i][1].bytes
                     /\ Len(ext.validator_report_records[i][2])
                            = Len(int.validator_report_records[i][2])
                     /\ \A j \in 1..Len(int.validator_report_records[i][2]) :
                           ext.validator_report_records[i][2][j].bytes
                               = int.validator_report_records[i][2][j].bytes

\* a state with the same validator twice, the same at-risk entry twice and a
\* reporter list naming an address twice has been converted
C7_Witness ==
    /\ ConvertedState
    /\ ~output.panicked
    /\ Len(input.value.active_validators) = 2
    /\ input.value.active_validators[1] = input.value.active_validators[2]
    /\ Len(input.value.at_risk_validators) = 2
    /\ input.value.at_risk_validators[1] = input.value.at_risk_validators[2]
    /\ Len(input.value.validator_report_records[1][2]) = 3
    /\ Len(output.out[1].at_risk_validators) = 2

\* the JSON value j is a string of decimal digits that decodes to the u64 x
DecimalStringOf(j, x) ==
    /\ j.json = "string"
    /\ DOMAIN j = {"json", "chars"}
    /\ Len(j.chars) >= 1
    /\ \A i \in 1..Len(j.chars) : IsDigit(j.chars[i])
    /\ BigInt_deserialize_as(j) = Some(x)

\* the members of a JSON object that are JSON numbers
NumberMembers(members) == {f \in DOMAIN members : members[f].json = "number"}

\* every u64 of a ValidatorSummary is a decimal string in its JSON object
ValidatorIntegersAreStrings(members, v) ==
    /\ \A f \in ValidatorSummary_u64_fields : DecimalStringOf(members[f], v[f])
    /\ \A f \in ValidatorSummary_option_u64_fields :
          IF IsSome(v[f]) THEN DecimalStringOf(members[f], v[f][1])
          ELSE members[f] = JsonNull
    /\ NumberMembers(members) = {}

\* every u64 of a SystemStateSummary is a decimal string in its JSON object
StateIntegersAreStrings(members, s) ==
    /\ \A f \in SystemStateSummary_u64_fields : DecimalStringOf(members[f], s[f])
    /\ members.pending_removals.json = "array"
    /\ Len(members.pending_removals.items) = Len(s.pending_removals)
    /\ \A i \in 1..Len(s.pending_removals) :
          DecimalStringOf(members.pending_removals.items[i], s.pending_removals[i])
    /\ Len(members.at_risk_validators.items) = Len(s.at_risk_validators)
    /\ \A i \in 1..Len(s.at_risk_validators) :
          DecimalStringOf(members.at_risk_validators.items[i].items[2],
                          s.at_risk_validators[i][2])
    /\ Len(members.active_validators.items) = Len(s.active_validators)
    /\ \A i \in 1..Len(s.active_validators) :
          ValidatorIntegersAreStrings(members.active_validators.items[i].fields,
                                      s.active_validators[i])
    /\ NumberMembers(members) = {"stake_subsidy_decrease_rate"}
    /\ members.stake_subsidy_decrease_rate = JsonNumber(s.stake_subsidy_decrease_rate)

\* C8: in the JSON of a SystemStateSummary and of a ValidatorSummary every
\* field declared u64 (optional ones, the elements of pending_removals and the
\* second components of at_risk_validators included) is a string of decimal
\* digits that decodes back to the same integer, 2^64 - 1 included; the only
\* member written as a JSON number is stake_subsidy_decrease_rate.
C8_IntegersAreDecimalStrings ==
    /\ (phase = "serialized" /\ input.kind = "validator") =>
          ValidatorIntegersAreStrings(wire.fields, output.out[1])
    /\ (phase = "serialized" /\ input.kind = "state") =>
          StateIntegersAreStrings(wire.fields, output.out[1])

\* a state whose safe_mode_storage_rewards is 2^64 - 1 has been serialized
\* with its validators, the value written as "18446744073709551615"
C8_Witness ==
    /\ phase = "serialized"
    /\ input.kind = "state"
    /\ output.out[1].safe_mode_storage_rewards = U64Max
    /\ wire.fields.safe_mode_storage_rewards.chars
          = <<"1", "8", "4", "4", "6", "7", "4", "4", "0", "7", "3", "7", "0", "9", "5",
              "5", "1", "6", "1", "5">>
    /\ Len(output.out[1].active_validators) = 2
    /\ \E i \in 1..Len(output.out[1].pending_removals) :
          output.out[1].pending_removals[i] = U64(32, 0, 0, 1)

\* the fields of a validator that are moved over under the same name
ValidatorSameNameFields ==
    { "proof_of_possession_bytes", "name", "description", "image_url", "project_url",
      "net_address", "p2p_address", "primary_address", "worker_address",
      "next_epoch_proof_of_possession", "next_epoch_net_address",
      "next_epoch_p2p_address", "next_epoch_primary_address",
      "next_epoch_worker_address" }
        \cup ValidatorSummary_u64_fields \cup ValidatorSummary_option_u64_fields

ValidatorIdFields == {"operation_cap_id", "staking_pool_id", "exchange_rates_id"}

ValidatorKeyFields ==
    { "protocol_public_key", "network_public_key", "worker_public_key",
      "next_epoch_protocol_public_key", "next_epoch_network_public_key",
      "next_epoch_worker_public_key" }

StateIdFields ==
    { "pending_active_validators_id", "staking_pool_mappings_id", "inactive_pools_id",
      "validator_candidates_id" }

StateSameNameFields ==
    SystemStateSummary_u64_fields
        \cup {"safe_mode", "stake_subsidy_decrease_rate", "pending_removals"}

\* every non-key field of the external validator is the internal field it is
\* mapped from
ValidatorFieldsCarried(ext, int) ==
    /\ DOMAIN ext
          = ValidatorSameNameFields \cup ValidatorIdFields \cup ValidatorKeyFields
                \cup {"address"}
    /\ \A f \in ValidatorSameNameFields : ext[f] = int[f]
    /\ ext.address.type = "Address" /\ ext.address.bytes = int.sui_address.bytes
    /\ \A f \in ValidatorIdFields :
          ext[f].type = "ObjectId" /\ ext[f].bytes = int[f].bytes
    /\ \A f, g \in ValidatorIdFields : int[f] # int[g] => ext[f] # ext[g]

StateFieldsCarried(ext, int) ==
    /\ DOMAIN ext
          = StateSameNameFields \cup StateIdFields
                \cup {"active_validators", "at_risk_validators", "validator_report_records"}
    /\ \A f \in StateSameNameFields : ext[f] = int[f]
    /\ \A f \in StateIdFields :
          ext[f].type = "ObjectId" /\ ext[f].bytes = int[f].bytes
    /\ \A f, g \in StateIdFields : int[f] # int[g] => ext[f] # ext[g]
    /\ \A i, j \in 1..Len(int.at_risk_validators) :
          int.at_risk_validators[i][1] # int.at_risk_validators[j][1] =>
              ext.at_risk_validators[i][1] # ext.at_risk_validators[j][1]
    /\ \A i \in 1..Len(int.active_validators) :
          ValidatorFieldsCarried(ext.active_validators[i], int.active_validators[i])

\* C9: for records with decodable keys the conversion is a re-shape: every
\* external scalar, string and byte field equals the internal field it is
\* mapped from (sui_address to address, the rest under the same name), the
\* safe_mode_* accumulators and total_stake are copied as they are, and every
\* identifier keeps its bytes, so different identifiers stay different.
C9_FieldsCarriedUnchanged ==
    /\ (ConvertedValidator /\ KeysDecodable(input.value)) =>
          (~output.panicked /\ ValidatorFieldsCarried(output.out[1], input.value))
    /\ (ConvertedState /\ AllKeysDecodable(input.value)) =>
          (~output.panicked /\ StateFieldsCarried(output.out[1], input.value))

\* a state with safe_mode off, non-zero accumulators and two validators has
\* been converted
C9_Witness ==
    /\ ConvertedState
    /\ ~output.panicked
    /\ ~input.value.safe_mode
    /\ input.value.safe_mode_storage_rewards = U64Max
    /\ output.out[1].safe_mode_computation_rewards # U64Zero
    /\ Len(output.out[1].active_validators) = 2
    /\ Len(output.out[1].at_risk_validators) = 2
    /\ output.out[1].at_risk_validators[1][1] # output.out[1].at_risk_validators[2][1]

\* what one request owns
RequestState(r) ==
    <<pc[r], accept[r], reads[r], read_state[r], provided[r], summary[r], result[r]>>

\* every successful response is the conversion of the one state its request read
ResponseOfOneState ==
    \A r \in Requests :
        (pc[r] = "done" /\ result[r].tag = "Ok") =>
            /\ reads[r] = 1
            /\ IsSome(read_state[r])
            /\ read_state[r][1] \in committed
            /\ result[r].body = SystemStateSummary_from(read_state[r][1]).out

\* a step of request r reads the state the provider holds at that moment,
\* changes nothing of the provider and nothing of any other request
RequestStepIsLocal ==
    \A r \in Requests :
        /\ (pc[r] = "read" /\ pc'[r] # "read") =>
              /\ read_state'[r] = store
              /\ provided'[r].tag = "Ok" =>
                    provided'[r].returned = SystemStateSummary_from(store[1]).out
        /\ pc'[r] # pc[r] =>
              /\ <<store, committed, commits>>' = <<store, committed, commits>>
              /\ \A q \in Requests \ {r} : RequestState(q)' = RequestState(q)

\* C10: with requests running concurrently with each other and with the
\* commits of the consensus layer, every successful response is the
\* conversion of one single state the provider held at the moment of the
\* request's one read, no step of a request touches another request, and no
\* request changes the provider's state.
C10_ConcurrentRequestsIndependent == []ResponseOfOneState /\ [][RequestStepIsLocal]_vars

\* two requests have answered with different bodies, one of them from a state
\* the provider has since replaced
C10_Witness ==
    \E r, q \in Requests :
        /\ pc[r] = "done" /\ result[r].tag = "Ok"
        /\ pc[q] = "done" /\ result[q].tag = "Ok"
        /\ result[r].body # result[q].body
        /\ read_state[r] # store
        /\ read_state[q] = store


\* request r has been answered with a success response
Answered(r) == pc[r] = "done" /\ result[r].tag = "Ok"

\* none of epoch, protocol_version, system_state_version of `later` is
\* smaller than that of `earlier`
VersionsNotBelow(earlier, later) ==
    /\ U64Le(earlier.epoch, later.epoch)
    /\ U64Le(earlier.protocol_version, later.protocol_version)
    /\ U64Le(earlier.system_state_version, later.system_state_version)

VersionsAbove(earlier, later) ==
    /\ VersionsNotBelow(earlier, later)
    /\ earlier.epoch # later.epoch
    /\ earlier.protocol_version # later.protocol_version
    /\ earlier.system_state_version # later.system_state_version

\* a success response produced now reports nothing smaller than any success
\* response produced before it
RespondNotBelowEarlierResponses ==
    \A r \in Requests :
        (pc[r] = "respond" /\ Answered(r)') =>
            \A q \in Requests \ {r} :
                Answered(q) => VersionsNotBelow(result[q].body[1], result'[r].body[1])

\* C11 as stated: in the order in which the success responses are produced, a
\* later response never reports a smaller epoch, protocol_version or
\* system_state_version than an earlier one.  Two overlapping requests break
\* it: the first reads, the consensus layer commits, the second reads and
\* answers, and then the first answers with the older snapshot.
C11_ResponsesNeverGoBack == [][RespondNotBelowEarlierResponses]_vars

\* a snapshot read now reports nothing smaller than any snapshot read before
\* it, in particular than any response already produced
ReadNotBelowEarlierReads ==
    \A r \in Requests :
        (pc[r] = "read" /\ pc'[r] = "respond") =>
            \A q \in Requests \ {r} :
                /\ IsSome(summary[q]) => VersionsNotBelow(summary[q][1], summary'[r][1])
                /\ Answered(q) => VersionsNotBelow(result[q].body[1], summary'[r][1])

\* a success response reports the snapshot its own request read
ResponseIsOwnSnapshot ==
    \A r \in Requests : Answered(r) => result[r].body = summary[r]

\* C11: in the order in which the snapshots are read from the provider, the
\* reported epoch, protocol_version and system_state_version never go back,
\* and each success response reports the snapshot of its own read.  A response
\* whose request read after an earlier response was produced therefore never
\* reports a smaller value of any of the three; responses of overlapping
\* requests carry no such order.
C11_SnapshotsNeverGoBack == []ResponseIsOwnSnapshot /\ [][ReadNotBelowEarlierReads]_vars

\* two requests have been answered across a commit: one reports the state the
\* provider holds now, the other an older state with all three values smaller
C11_Witness ==
    \E r, q \in Requests :
        /\ Answered(q) /\ Answered(r)
        /\ read_state[r] = store
        /\ read_state[q] # store
        /\ VersionsAbove(result[q].body[1], result[r].body[1])

====
